---- MODULE Spec2Model ----
(***************************************************************************)
(* Batch job execution and orchestration engine:                           *)
(*   backend/app/services/job_service.py  (JobService, the job store)      *)
(*   backend/app/tasks.py                 (execute_playbook_task,          *)
(*                                         execute_batch_job_task)         *)
(*   backend/app/api/jobs.py              (create_job, cancel_job,         *)
(*                                         create_batch_job)               *)
(*                                                                         *)
(* The job table is the sequence `jobs`: the primary key of a row is its   *)
(* index.  One request creates rows: either a single job (row 1) or a      *)
(* batch (parent row 1, children rows 2..n+1).  Every database             *)
(* transaction of the code is one atomic step.  Celery tasks are the       *)
(* records of `task` (one execute_playbook_task per job) and `coord` (the  *)
(* execute_batch_job_task of the parent).  The job_logs table keeps the     *)
(* line_number of its rows per job, the notifications table is a bag of    *)
(* rows (utils/log_parser.py, services/notification_service.py).           *)
(***************************************************************************)
EXTENDS Integers, Sequences, FiniteSets, Bags, TLC

VARIABLES
    jobs,          \* the jobs table: Seq of Job rows
    batch_config,  \* the parent's batch_config column
    task,          \* execute_playbook_task instances, one per job row
    coord,         \* the execute_batch_job_task instance of the parent
    api,           \* position of the creating API request
    revoked,       \* task ids for which celery.control.revoke was broadcast
    cancels,       \* number of cancel requests served so far
    cancelled_from, \* history: per job, the status cancel_job last found ("none": never)
    job_logs,      \* the job_logs table: per job, the line_number of its rows in insertion order
    notifications  \* the notifications table: Seq of the rows create_notification stored

vars == <<jobs, batch_config, task, coord, api, revoked, cancels, cancelled_from,
          job_logs, notifications>>

\* ---------------------------------------------------------------- bounds
MaxServers == 3     \* largest server_ids list of a batch request
MaxCancels == 1     \* cancel requests per behaviour
MaxLines == 2       \* lines of the runner's stdout

\* ------------------------------------------------------------- constants
None == 0           \* Python None for timestamps and task ids
MinServers == 2     \* api/jobs.py: len(server_ids) < 2 is rejected
ParentId == 1       \* primary key of the first row a request creates

Terminal == {"success", "failed", "cancelled"}
Statuses == {"pending", "running"} \cup Terminal

\* values a request can put into batch_config['concurrent_limit']:
\* negative, 0 (falsy, like a missing value), 1 .. n-1, and >= n (for n below
\* the largest batch)
ConcurrentLimits == (0 - 1) .. (MaxServers - 1)
Strategies == {"parallel", "sequential"}
DefaultLimit == 5   \* api/jobs.py: data.get('concurrent_limit', 5)

\* the batch requests explored: a sequential batch never reads the limit (it
\* carries the default), and a parallel batch sent out as one group never reads
\* stop_on_failure (it carries the default, False)
BatchRequests ==
    {r \in [n : MinServers .. MaxServers, concurrent_limit : ConcurrentLimits \cup {DefaultLimit},
            stop_on_failure : BOOLEAN, execution_strategy : Strategies] :
        /\ r.execution_strategy = "sequential" => r.concurrent_limit = DefaultLimit
        /\ r.execution_strategy = "parallel" =>
              /\ r.concurrent_limit \in ConcurrentLimits
              /\ (r.concurrent_limit = 0 \/ r.concurrent_limit >= r.n) => ~r.stop_on_failure}

\* what a query for a playbook or server row finds: no row, a row with
\* is_active = False (soft-deleted), or an active row
Lookups == {"missing", "inactive", "active"}

\* requests the API or the service refuse for their shape: fewer than 2
\* server_ids, or an execution_strategy that is neither parallel nor sequential
MalformedRequests ==
    {r \in [n : 0 .. MinServers, concurrent_limit : {DefaultLimit},
            stop_on_failure : {FALSE}, execution_strategy : Strategies \cup {"rolling"}] :
        r.n < MinServers \/ r.execution_strategy \notin Strategies}

\* ------------------------------------------------------------ job store
\* models.Job as created by create_job / create_batch_job
NewJob(parent, isBatch) ==
    [ status         |-> "pending",
      started_at     |-> None,
      completed_at   |-> None,
      celery_task_id |-> None,
      error_message  |-> "",
      parent_job_id  |-> parent,
      is_batch_job   |-> isBatch ]

JobIds == 1 .. Len(jobs)

\* datetime.utcnow() as read while writing row r: one increasing clock, so the
\* reading is later than every timestamp the row already holds.  Only the order
\* of the timestamps of one row is kept.
utcnow(r) == 1 + (IF r.started_at > r.completed_at THEN r.started_at ELSE r.completed_at)

\* JobService.update_job_status: unconditional status write, optional
\* task id and error message, started_at only if unset, completed_at always
update_job_status(js, id, status, error_message, celery_task_id) ==
    [js EXCEPT ![id] =
        [ @ EXCEPT
            !.status = status,
            !.celery_task_id = IF celery_task_id # None THEN celery_task_id ELSE @,
            !.error_message = IF error_message # "" THEN error_message ELSE @,
            !.started_at = IF status = "running" /\ @ = None THEN utcnow(js[id]) ELSE @,
            !.completed_at = IF status \in Terminal THEN utcnow(js[id]) ELSE @ ]]

\* JobService.cancel_job: unconditional status write, completed_at only if unset
cancel_job(js, id) ==
    [js EXCEPT ![id] =
        [ @ EXCEPT
            !.status = "cancelled",
            !.error_message = "Job cancelled by user",
            !.completed_at = IF @ = None THEN utcnow(js[id]) ELSE @ ]]

\* JobService.get_child_jobs: the rows whose parent_job_id is the parent,
\* in primary-key order
RECURSIVE ChildrenFrom(_, _, _)
ChildrenFrom(js, parent, k) ==
    IF k > Len(js) THEN <<>>
    ELSE (IF js[k].parent_job_id = parent THEN <<k>> ELSE <<>>)
         \o ChildrenFrom(js, parent, k + 1)

get_child_jobs(js, parent) == ChildrenFrom(js, parent, 1)

SeqToSet(s) == {s[k] : k \in 1 .. Len(s)}

\* sum(1 for j in child_jobs if j.status in S)
CountStatus(js, ids, S) == Cardinality({k \in 1 .. Len(ids) : js[ids[k]].status \in S})

\* update_batch_job_status with mixed success/failed children counted as success
update_batch_job_status_mixed(js, parent) ==
    LET child_jobs    == get_child_jobs(js, parent)
        total         == Len(child_jobs)
        completed     == CountStatus(js, child_jobs, Terminal)
        success_count == CountStatus(js, child_jobs, {"success"})
        failed_count  == CountStatus(js, child_jobs, {"failed"})
        running_count == CountStatus(js, child_jobs, {"running"})
    IN  IF completed = total
        THEN [js EXCEPT ![parent] =
                [ @ EXCEPT
                    !.status = IF failed_count = 0 THEN "success"
                               ELSE IF success_count = 0 THEN "failed"
                               ELSE "success",
                    !.completed_at = utcnow(js[parent]) ]]
        ELSE IF running_count > 0
        THEN [js EXCEPT ![parent] =
                [ @ EXCEPT
                    !.status = "running",
                    !.started_at = IF @ = None THEN utcnow(js[parent]) ELSE @ ]]
        ELSE js

\* JobService.update_batch_job_status
update_batch_job_status(js, parent) ==
    LET child_jobs    == get_child_jobs(js, parent)
        total         == Len(child_jobs)
        completed     == CountStatus(js, child_jobs, Terminal)
        success_count == CountStatus(js, child_jobs, {"success"})
        failed_count  == CountStatus(js, child_jobs, {"failed"})
        running_count == CountStatus(js, child_jobs, {"running"})
    IN  IF completed = total
        THEN [js EXCEPT ![parent] =
                [ @ EXCEPT
                    !.status = IF failed_count = 0 THEN "success"
                               ELSE IF success_count = 0 THEN "failed"
                               ELSE "failed",
                    !.completed_at = utcnow(js[parent]) ]]
        ELSE IF running_count > 0
        THEN [js EXCEPT ![parent] =
                [ @ EXCEPT
                    !.status = "running",
                    !.started_at = IF @ = None THEN utcnow(js[parent]) ELSE @ ]]
        ELSE js

\* for job_id in ids: update_job_status(job_id, 'cancelled', error_message=msg)
RECURSIVE CancelAll(_, _, _)
CancelAll(js, ids, msg) ==
    IF ids = <<>> THEN js
    ELSE CancelAll(update_job_status(js, Head(ids), "cancelled", msg, None),
                   Tail(ids), msg)

\* the ids of `ids` whose row is pending or running
RECURSIVE Unfinished(_, _)
Unfinished(js, ids) ==
    IF ids = <<>> THEN <<>>
    ELSE (IF js[Head(ids)].status \in {"pending", "running"} THEN <<Head(ids)>> ELSE <<>>)
         \o Unfinished(js, Tail(ids))

\* Python slice s[a:] (a >= 0)
SliceFrom(s, a) == IF a >= Len(s) THEN <<>> ELSE SubSeq(s, a + 1, Len(s))
\* Python slice s[a:b] (0 <= a, b >= a)
Slice(s, a, b) == IF a >= Len(s) THEN <<>>
                  ELSE SubSeq(s, a + 1, IF b < Len(s) THEN b ELSE Len(s))

\* ------------------------------------------------------------ task state
IdleTask == [pc |-> "none", id |-> None, result |-> "none"]
IdleCoord == [pc |-> "none", i |-> 0, window |-> <<>>, results |-> <<>>, result |-> "none"]
NoConfig == [concurrent_limit |-> 0, stop_on_failure |-> FALSE,
             execution_strategy |-> "none"]

Init ==
    /\ jobs = <<>>
    /\ batch_config = NoConfig
    /\ task = <<>>
    /\ coord = IdleCoord
    /\ api = "idle"
    /\ revoked = {}
    /\ cancels = 0
    /\ cancelled_from = <<>>
    /\ job_logs = <<>>
    /\ notifications = EmptyBag


Parent == jobs[ParentId]
\* the child_jobs list the coordinator reads once at its start
Children == get_child_jobs(jobs, ParentId)

\* -------------------------------------------------------- API: creation
\* the creating request is refused: nothing is stored or dispatched
Rejected ==
    /\ api' = "rejected"
    /\ UNCHANGED <<jobs, task, coord, batch_config, cancelled_from, job_logs>>

\* JobService.create_job 32-40: playbook and server must exist and be active
create_job_valid(playbook, server) == playbook = "active" /\ server = "active"

\* api/jobs.py create_job for one outcome of the lookups: job_service.create_job
\* (ValueError: 400), then execute_playbook_task.delay(job.id)
ApiCreateJobWith(playbook, server) ==
    IF create_job_valid(playbook, server)
    THEN /\ jobs' = <<NewJob(None, FALSE)>>
         /\ task' = <<[IdleTask EXCEPT !.pc = "queued", !.id = 1]>>
         /\ api' = "job_dispatched"
         /\ cancelled_from' = <<"none">>
         /\ job_logs' = <<(<<>>)>>
         /\ UNCHANGED <<batch_config, coord>>
    ELSE Rejected

ApiCreateJob ==
    /\ api = "idle"
    /\ \E playbook, server \in Lookups : ApiCreateJobWith(playbook, server)
    /\ UNCHANGED <<revoked, cancels, notifications>>

\* api/jobs.py create_job, after the dispatch:
\* update_job_status(job.id, 'pending', celery_task_id=task.id)
ApiStoreTaskId ==
    /\ api = "job_dispatched"
    /\ jobs' = update_job_status(jobs, 1, "pending", "", 1)
    /\ api' = "done"
    /\ UNCHANGED <<batch_config, task, coord, revoked, cancels, cancelled_from, job_logs, notifications>>

\* the servers query of create_batch_job with the test of is_active left out
servers_valid_any_row(servers) == \A k \in 1 .. Len(servers) : servers[k] # "missing"

\* JobService.create_batch_job 403-406: the query keeps the active rows of
\* server_ids, and their number must be len(server_ids)
servers_valid(servers) == \A k \in 1 .. Len(servers) : servers[k] = "active"

\* api/jobs.py 373-398 and JobService.create_batch_job 398-406: the checks a
\* batch request passes before a row is written
create_batch_valid(r, playbook, servers) ==
    /\ r.n >= MinServers
    /\ r.execution_strategy \in Strategies
    /\ playbook = "active"
    /\ servers_valid(servers)

\* api/jobs.py create_batch_job with JobService.create_batch_job up to
\* execute_batch_job_task.delay(parent_job.id), for one request and one outcome
\* of the lookups: a refusal (400), or the parent row and one child row per
\* server, all pending, in one commit, and the dispatch of the coordinator
CreateBatchJobWith(r, playbook, servers) ==
    IF create_batch_valid(r, playbook, servers)
    THEN /\ jobs' = <<NewJob(None, TRUE)>> \o [k \in 1 .. r.n |-> NewJob(ParentId, FALSE)]
         /\ task' = [k \in 1 .. r.n + 1 |-> IdleTask]
         /\ batch_config' = [concurrent_limit |-> r.concurrent_limit,
                             stop_on_failure |-> r.stop_on_failure,
                             execution_strategy |-> r.execution_strategy]
         /\ cancelled_from' = [k \in 1 .. r.n + 1 |-> "none"]
         /\ job_logs' = [k \in 1 .. r.n + 1 |-> <<>>]
         /\ coord' = [IdleCoord EXCEPT !.pc = "queued"]
         /\ api' = "batch_dispatched"
    ELSE Rejected

CreateBatchJob ==
    /\ api = "idle"
    /\ \E r \in BatchRequests \cup MalformedRequests, playbook \in Lookups :
         \E servers \in [1 .. r.n -> Lookups] : CreateBatchJobWith(r, playbook, servers)
    /\ UNCHANGED <<revoked, cancels, notifications>>

\* JobService.create_batch_job, after the dispatch:
\* parent_job.celery_task_id = task.id; parent_job.status = 'running'
CreateBatchStoreTaskId ==
    /\ api = "batch_dispatched"
    /\ jobs' = [jobs EXCEPT ![ParentId] =
                   [@ EXCEPT !.celery_task_id = ParentId, !.status = "running"]]
    /\ api' = "done"
    /\ UNCHANGED <<batch_config, task, coord, revoked, cancels, cancelled_from, job_logs, notifications>>

\* ---------------------------------------------------- API: cancellation
\* api/jobs.py cancel_job: job_service.cancel_job, then
\* celery.control.revoke(job.celery_task_id, terminate=True) if the id is set
CancelJob(j) ==
    /\ cancels < MaxCancels
    /\ j \in JobIds
    /\ jobs' = cancel_job(jobs, j)
    /\ revoked' = IF jobs[j].celery_task_id # None
                  THEN revoked \cup {jobs[j].celery_task_id}
                  ELSE revoked
    /\ cancels' = cancels + 1
    /\ cancelled_from' = [cancelled_from EXCEPT ![j] = jobs[j].status]
    /\ UNCHANGED <<batch_config, task, coord, api, job_logs, notifications>>

\* -------------------------------------------------- logs, notifications
\* a line of the runner's stdout: "" stands for every line that strip()
\* empties, "ok" for every other line
Lines == {"", "ok"}
\* stdout after split('\n'); <<>> is an empty or missing stdout
Outputs == UNION {[1 .. k -> Lines] : k \in 0 .. MaxLines}

\* AnsibleLogParser.parse_output: the line_number of every parsed entry, the
\* lines numbered by enumerate(lines, start=start_line + 1), blank lines skipped
RECURSIVE ParseFrom(_, _, _)
ParseFrom(lines, k, start_line) ==
    IF k > Len(lines) THEN <<>>
    ELSE (IF lines[k] # "" THEN <<start_line + k>> ELSE <<>>)
         \o ParseFrom(lines, k + 1, start_line)

parse_output(output) == ParseFrom(output, 1, 0)

\* JobService.add_job_logs_bulk and add_job_log: rows are appended as given
add_job_logs_bulk(logs, id, line_numbers) == [logs EXCEPT ![id] = @ \o line_numbers]
add_job_log(logs, id, line_number) == [logs EXCEPT ![id] = Append(@, line_number)]

\* NotificationService.create_notification: stores the row, or raises
create_notification(ns, row, ok) == IF ok THEN ns (+) SetToBag({row}) ELSE ns

\* the runner outputs explored: any output for a single job; the children of a
\* batch run with an empty output
Stdouts(j) == IF jobs[j].parent_job_id = None /\ ~jobs[j].is_batch_job
              THEN Outputs ELSE {<<>>}
\* the notification deliveries explored: a delivery may fail for a single job
\* and for a batch parent; for the children of a batch it succeeds
NotifyOutcomes(j) == IF jobs[j].parent_job_id = None THEN BOOLEAN ELSE {TRUE}
\* the bodies explored as raising: that of a single job; a child of a batch
\* reaches the status 'error' the coordinator reads through a missing row
BodyMayRaise(j) == jobs[j].parent_job_id = None

\* ------------------------------------------------- execute_playbook_task
\* ExecStartWith without the test of the lookups: the job is set to running
\* whatever they return
ExecStartWith_unchecked(j, lookup) ==
    /\ jobs' = update_job_status(jobs, j, "running", "", task[j].id)
    /\ task' = [task EXCEPT ![j].pc = "running"]

\* tasks.py 28-51 for one outcome of the lookups: only `not playbook or not
\* server` is tested; a missing row fails the job and returns status 'error',
\* any row found sets the job to running with the task's own request id
ExecStartWith(j, lookup) ==
    IF lookup = "missing"
    THEN /\ jobs' = update_job_status(jobs, j, "failed",
                                      "Playbook or server not found", None)
         /\ task' = [task EXCEPT ![j].pc = "done", ![j].result = "error"]
    ELSE /\ jobs' = update_job_status(jobs, j, "running", "", task[j].id)
         /\ task' = [task EXCEPT ![j].pc = "running"]

ExecStart(j) ==
    /\ j \in JobIds
    /\ task[j].pc = "queued"
    /\ \E lookup \in Lookups : ExecStartWith(j, lookup)
    /\ UNCHANGED <<batch_config, coord, api, revoked, cancels, cancelled_from, job_logs,
                   notifications>>

\* runner.status as run_playbook returns it: every status other than
\* 'successful' leads to final_status 'failed' (only the message text differs)
RunnerStatuses == {"successful", "failed"}

\* tasks.py 106-115
final_status(runner) == IF runner = "successful" THEN "success" ELSE "failed"
final_message(runner) ==
    IF runner = "successful" THEN ""
    ELSE IF runner = "failed" THEN "Playbook execution failed with return code"
    ELSE "Unknown status"

\* tasks.py 122-145: the notification row of a finished job
JobNotification(j, status) ==
    [event_type |-> IF status = "success" THEN "job_success" ELSE "job_failure",
     related_entity_id |-> j, success |-> 0, failed |-> 0]

\* tasks.py 188-212, except Exception: the job is set to failed, a log row with
\* line_number 1 is added and the task returns status 'error'; `inserted` are
\* the rows the body had inserted when it raised
ExecCatchAll(j, inserted) ==
    /\ jobs' = update_job_status(jobs, j, "failed", "Task execution error", None)
    /\ job_logs' = add_job_log(add_job_logs_bulk(job_logs, j, inserted), j, 1)
    /\ task' = [task EXCEPT ![j].pc = "done", ![j].result = "error"]

\* tasks.py 86-160 without the isolation of the notification: a delivery that
\* raises reaches the catch-all handler
ExecFinish_unisolated(j, runner, stdout, ok) ==
    IF ok
    THEN /\ jobs' = update_job_status(jobs, j, final_status(runner),
                                      final_message(runner), None)
         /\ job_logs' = add_job_logs_bulk(job_logs, j, parse_output(stdout))
         /\ notifications' = create_notification(notifications,
                                JobNotification(j, final_status(runner)), ok)
         /\ task' = [task EXCEPT ![j].pc = "done", ![j].result = final_status(runner)]
    ELSE /\ ExecCatchAll(j, parse_output(stdout))
         /\ UNCHANGED notifications

\* tasks.py 86-160: the runner returned `runner` with output `stdout`; the
\* parsed lines are inserted, the terminal status is written, the notification
\* is attempted inside its own try/except, and the task returns final_status
ExecFinish(j, runner, stdout, ok) ==
    /\ jobs' = update_job_status(jobs, j, final_status(runner),
                                 final_message(runner), None)
    /\ job_logs' = add_job_logs_bulk(job_logs, j, parse_output(stdout))
    /\ notifications' = create_notification(notifications,
                           JobNotification(j, final_status(runner)), ok)
    /\ task' = [task EXCEPT ![j].pc = "done", ![j].result = final_status(runner)]

\* the rows of `stdout` a body interrupted at some point has inserted: none
\* (interrupted before line 104) or all of them (after it)
InsertedSoFar(stdout) == {<<>>, parse_output(stdout)}

\* tasks.py 53-160: run_playbook returns and the task finishes; or a step
\* raises, before or after the bulk insert
ExecRun(j) ==
    /\ j \in JobIds
    /\ task[j].pc = "running"
    /\ \E stdout \in Stdouts(j) :
         \/ \E runner \in RunnerStatuses, ok \in NotifyOutcomes(j) :
                ExecFinish(j, runner, stdout, ok)
         \/ /\ BodyMayRaise(j)
            /\ \E inserted \in InsertedSoFar(stdout) : ExecCatchAll(j, inserted)
            /\ UNCHANGED notifications
    /\ UNCHANGED <<batch_config, coord, api, revoked, cancels, cancelled_from>>

\* tasks.py 162-186, except Terminated: the job is set to cancelled, a log row
\* with line_number 1 is added and the task returns status 'cancelled'
ExecTerminated(j, inserted) ==
    /\ jobs' = update_job_status(jobs, j, "cancelled", "Task was terminated by user",
                                 None)
    /\ job_logs' = add_job_log(add_job_logs_bulk(job_logs, j, inserted), j, 1)
    /\ task' = [task EXCEPT ![j].pc = "done", ![j].result = "cancelled"]

\* the worker acts on revoke(task_id, terminate=True, signal='SIGKILL') for a
\* task dispatched to it: a task not yet started is discarded; a started one
\* either sees Terminated raised in its body or dies with its process, before
\* or after its bulk insert
Terminate(j) ==
    /\ j \in JobIds
    /\ task[j].id > 0
    /\ task[j].id \in revoked
    /\ \/ /\ task[j].pc = "running"
          /\ \E stdout \in Stdouts(j) : \E inserted \in InsertedSoFar(stdout) :
               \/ ExecTerminated(j, inserted)
               \/ /\ task' = [task EXCEPT ![j].pc = "done", ![j].result = "revoked"]
                  /\ job_logs' = add_job_logs_bulk(job_logs, j, inserted)
                  /\ UNCHANGED jobs
       \/ /\ task[j].pc = "queued"
          /\ task' = [task EXCEPT ![j].pc = "done", ![j].result = "revoked"]
          /\ UNCHANGED <<jobs, job_logs>>
    /\ UNCHANGED <<batch_config, coord, api, revoked, cancels, cancelled_from,
                   notifications>>


\* ------------------------------------------------ execute_batch_job_task
\* tasks.py 339-364: read batch_config and the children; without children the
\* parent fails; otherwise parent.status = 'running' and
\* parent.started_at = utcnow(), both unconditionally
CoordStart ==
    /\ coord.pc = "queued"
    /\ Parent.is_batch_job
    /\ IF Children = <<>>
       THEN /\ jobs' = update_job_status(jobs, ParentId, "failed",
                                         "No child jobs found for batch execution",
                                         None)
            /\ coord' = [coord EXCEPT !.pc = "done", !.result = "error"]
       ELSE /\ jobs' = [jobs EXCEPT ![ParentId] =
                           [@ EXCEPT !.status = "running", !.started_at = utcnow(Parent)]]
            /\ coord' = [coord EXCEPT
                           !.pc = IF batch_config.execution_strategy = "sequential"
                                  THEN "seq" ELSE "par"]
    /\ UNCHANGED <<batch_config, task, api, revoked, cancels, cancelled_from, job_logs, notifications>>

\* tasks.py 386-389, the except Exception inside the sequential loop: an error
\* raised in the body of the iteration for the current child is recorded as a
\* result with status 'error'; the loop ends only with stop_on_failure and
\* otherwise goes on to the next child
CoordSeqExcept ==
    coord' = [coord EXCEPT
                !.results = Append(@, "error"),
                !.i = @ + 1,
                !.pc = IF batch_config.stop_on_failure \/ coord.i + 1 >= Len(Children)
                       THEN "update" ELSE "seq"]

\* tasks.py 370-373: execute_playbook_task.apply(args=[child_job.id]) runs the
\* next child in the coordinator's own process under a fresh task id that no
\* worker knows (modelled as the negated job id); or the step raises (reading
\* child_job.id reloads the row) and the child is not run
CoordSeqApply ==
    /\ coord.pc = "seq"
    /\ coord.i < Len(Children)
    /\ \/ /\ LET child == Children[coord.i + 1]
             IN  task' = [task EXCEPT ![child] =
                             [IdleTask EXCEPT !.pc = "queued", !.id = 0 - child]]
          /\ coord' = [coord EXCEPT !.pc = "seqwait"]
       \/ /\ CoordSeqExcept
          /\ UNCHANGED task
    /\ UNCHANGED <<jobs, batch_config, api, revoked, cancels, cancelled_from, job_logs,
                   notifications>>

\* tasks.py 374-385: append the child's result; with stop_on_failure and a
\* result status 'failed', cancel child_jobs[len(results):] and leave the loop
CoordSeqResult ==
    /\ coord.pc = "seqwait"
    /\ LET child   == Children[coord.i + 1]
           results == Append(coord.results, task[child].result)
           stop    == batch_config.stop_on_failure /\ task[child].result = "failed"
       IN  /\ task[child].pc = "done"
           /\ jobs' = IF stop
                      THEN CancelAll(jobs, SliceFrom(Children, Len(results)),
                                     "Cancelled due to failure in batch execution")
                      ELSE jobs
           /\ coord' = [coord EXCEPT
                          !.results = results,
                          !.i = @ + 1,
                          !.pc = IF stop \/ coord.i + 1 >= Len(Children)
                                 THEN "update" ELSE "seq"]
    /\ UNCHANGED <<batch_config, task, api, revoked, cancels, cancelled_from, job_logs, notifications>>

\* tasks.py 395: if concurrent_limit and concurrent_limit < len(child_job_ids)
Windowed == /\ batch_config.concurrent_limit # 0
            /\ batch_config.concurrent_limit < Len(Children)

\* a window that takes one child more than the limit
Window_wide(ids, i, c) == Slice(ids, i, i + c + 1)

\* tasks.py 399: batch = child_job_ids[i:i+concurrent_limit]
Window(ids, i, c) == Slice(ids, i, i + c)

\* tasks.py 398-403 and 423-424: the next window child_job_ids[i:i+limit] (or
\* all children when not windowed) is sent to the workers as a group; the
\* range of a negative limit is empty
CoordDispatch ==
    /\ coord.pc = "par"
    /\ LET c      == batch_config.concurrent_limit
           window == IF Windowed THEN Window(Children, coord.i, c)
                     ELSE Children
       IN  IF Windowed /\ c < 0
           THEN /\ coord' = [coord EXCEPT !.pc = "update"]
                /\ UNCHANGED task
           ELSE /\ coord' = [coord EXCEPT !.pc = "join", !.window = window]
                /\ task' = [k \in 1 .. Len(task) |->
                               IF k \in SeqToSet(window)
                               THEN [IdleTask EXCEPT !.pc = "queued", !.id = k]
                               ELSE task[k]]
    /\ UNCHANGED <<jobs, batch_config, api, revoked, cancels, cancelled_from, job_logs, notifications>>

\* tasks.py 498-510, except Exception: the parent is set to failed
CoordCatchAll ==
    /\ jobs' = update_job_status(jobs, ParentId, "failed", "Batch execution error",
                                 None)
    /\ coord' = [coord EXCEPT !.pc = "done", !.result = "error"]

\* GroupResult.get() visits the members in submission order: it returns when
\* all have returned and raises at the first member that was revoked
JoinRaises ==
    \E k \in 1 .. Len(coord.window) :
        /\ task[coord.window[k]].pc = "done"
        /\ task[coord.window[k]].result = "revoked"
        /\ \A m \in 1 .. k - 1 : /\ task[coord.window[m]].pc = "done"
                                 /\ task[coord.window[m]].result # "revoked"

\* a join that returns as soon as one member of the window has returned
JoinReturns_any ==
    \E k \in 1 .. Len(coord.window) :
        /\ task[coord.window[k]].pc = "done"
        /\ task[coord.window[k]].result # "revoked"

JoinReturns ==
    \A k \in 1 .. Len(coord.window) :
        /\ task[coord.window[k]].pc = "done"
        /\ task[coord.window[k]].result # "revoked"

\* tasks.py 405-420 and 426-427: wait for the window, extend results in
\* submission order; with stop_on_failure and a result status 'failed' in the
\* window, cancel child_job_ids[i+limit:] and leave the loop
CoordJoin ==
    /\ coord.pc = "join"
    /\ \/ /\ JoinRaises
          /\ CoordCatchAll
       \/ /\ JoinReturns
          /\ LET c            == batch_config.concurrent_limit
                 batch_output == [k \in 1 .. Len(coord.window) |->
                                     task[coord.window[k]].result]
                 stop == /\ Windowed
                         /\ batch_config.stop_on_failure
                         /\ \E k \in 1 .. Len(batch_output) : batch_output[k] = "failed"
                 last == ~Windowed \/ coord.i + c >= Len(Children)
             IN  /\ jobs' = IF stop
                            THEN CancelAll(jobs, SliceFrom(Children, coord.i + c),
                                           "Cancelled due to failure in batch execution")
                            ELSE jobs
                 /\ coord' = [coord EXCEPT
                                !.results = @ \o batch_output,
                                !.i = IF Windowed THEN @ + c ELSE @,
                                !.pc = IF stop \/ last THEN "update" ELSE "par"]
    /\ UNCHANGED <<batch_config, task, api, revoked, cancels, cancelled_from, job_logs, notifications>>

\* sum(1 for r in results if r.get('status') == status)
CountResults(results, status) ==
    Cardinality({k \in 1 .. Len(results) : results[k] = status})

\* tasks.py 433-464: the batch-completion notification row
BatchNotification(results) ==
    [event_type |-> "batch_complete", related_entity_id |-> ParentId,
     success |-> CountResults(results, "success"),
     failed |-> CountResults(results, "failed")]

\* tasks.py 429-474: update_batch_job_status, then the completion notification
\* inside its own try/except, then the return with status 'completed'
CoordUpdateWith(ok) ==
    /\ jobs' = update_batch_job_status(jobs, ParentId)
    /\ notifications' = create_notification(notifications,
                           BatchNotification(coord.results), ok)
    /\ coord' = [coord EXCEPT !.pc = "done", !.result = "completed"]

CoordUpdate ==
    /\ coord.pc = "update"
    /\ \E ok \in NotifyOutcomes(ParentId) : CoordUpdateWith(ok)
    /\ UNCHANGED <<batch_config, task, api, revoked, cancels, cancelled_from, job_logs>>

\* tasks.py 476-496, except Terminated: the parent is set to cancelled, then
\* every child read as pending or running is set to cancelled
CoordTerminated ==
    /\ jobs' = CancelAll(update_job_status(jobs, ParentId, "cancelled",
                                           "Batch job was terminated by user", None),
                         Unfinished(jobs, Children),
                         "Cancelled due to parent batch job termination")
    /\ coord' = [coord EXCEPT !.pc = "done", !.result = "cancelled"]

\* the child that runs inside the coordinator's process (sequential strategy)
EagerChild == IF coord.pc = "seqwait" /\ task[Children[coord.i + 1]].pc # "done"
              THEN Children[coord.i + 1] ELSE None

\* the worker acts on the revoke of the coordinator's task: not yet started,
\* it is discarded; started, either Terminated is raised where the process
\* stands (inside the eagerly applied child, whose own handler catches it;
\* inside the try of the sequential loop after the child returned, whose
\* except Exception catches it; elsewhere in the coordinator), or the process
\* dies, and the child inside it with it
CoordTerminate ==
    /\ ParentId \in revoked
    /\ coord.pc \notin {"none", "done"}
    /\ \/ /\ coord.pc # "queued"
          /\ IF EagerChild # None
             THEN /\ ExecTerminated(EagerChild, <<>>)
                  /\ UNCHANGED coord
             ELSE IF coord.pc = "seqwait"
             THEN /\ CoordSeqExcept
                  /\ UNCHANGED <<jobs, task, job_logs>>
             ELSE /\ CoordTerminated
                  /\ UNCHANGED <<task, job_logs>>
          /\ revoked' = revoked \ {ParentId}
       \/ /\ coord' = [coord EXCEPT !.pc = "done", !.result = "revoked"]
          /\ task' = IF EagerChild # None
                     THEN [task EXCEPT ![EagerChild].pc = "done",
                                       ![EagerChild].result = "revoked"]
                     ELSE task
          /\ UNCHANGED <<jobs, revoked, job_logs>>
    /\ UNCHANGED <<batch_config, api, cancels, cancelled_from, notifications>>

\* ------------------------------------------------------- specification
Next ==
    \/ ApiCreateJob
    \/ ApiStoreTaskId
    \/ CreateBatchJob
    \/ CreateBatchStoreTaskId
    \/ \E j \in JobIds : CancelJob(j)
    \/ \E j \in JobIds : ExecStart(j)
    \/ \E j \in JobIds : ExecRun(j)
    \/ \E j \in JobIds : Terminate(j)
    \/ CoordStart
    \/ CoordSeqApply
    \/ CoordSeqResult
    \/ CoordDispatch
    \/ CoordJoin
    \/ CoordUpdate
    \/ CoordTerminate

Spec == Init /\ [][Next]_vars

TypeOK ==
    /\ \A j \in JobIds : jobs[j].status \in Statuses
    /\ cancels \in 0 .. MaxCancels


\* ------------------------------------------------------------ properties
IsSingle == Len(jobs) = 1
IsBatch == Len(jobs) > 1
ChildIds == SeqToSet(Children)
Sequential == IsBatch /\ batch_config.execution_strategy = "sequential"
Parallel == IsBatch /\ batch_config.execution_strategy = "parallel"
AllChildren(S) == \A k \in ChildIds : jobs[k].status \in S
SomeChild(S) == \E k \in ChildIds : jobs[k].status \in S
RunningCount == Cardinality({k \in ChildIds : jobs[k].status = "running"})
\* the step in which the coordinator returns from update_batch_job_status
UpdateStep == coord.pc = "update" /\ coord'.pc = "done" /\ coord'.result = "completed"

\* C1: terminal statuses are absorbing: once the status of a job is success,
\* failed or cancelled, no step changes it.
C1_TerminalAbsorbing ==
    [][\A j \in JobIds :
          jobs[j].status \in Terminal => jobs'[j].status = jobs[j].status]_vars

\* C2: whenever the parent's status is success every child's status is success,
\* and update_batch_job_status run over children that are all success sets the
\* parent to success.
C2_SuccessIffAllSuccess ==
    [][IsBatch =>
         /\ Parent'.status = "success" => \A k \in ChildIds : jobs'[k].status = "success"
         /\ UpdateStep /\ AllChildren({"success"}) => Parent'.status = "success"]_vars

\* C3 (as claimed): the parent's status is failed only if all of its children
\* are terminal and at least one of them is failed; no other path puts the
\* parent in failed.
C3_FailedOnlyWithFailedChild ==
    [][IsBatch /\ Parent.status # "failed" /\ Parent'.status = "failed"
         => AllChildren(Terminal) /\ SomeChild({"failed"})]_vars

\* C3 (amended): update_batch_job_status leaves the parent failed if and only
\* if all children are terminal and at least one is failed (mixed
\* success/failed included); the only other steps that put the parent in failed
\* are the coordinator's error paths, which end the task with status 'error'.
C3_FailedByUpdateOrError ==
    [][IsBatch =>
         /\ UpdateStep =>
              (Parent'.status = "failed" <=> AllChildren(Terminal) /\ SomeChild({"failed"}))
         /\ Parent.status # "failed" /\ Parent'.status = "failed" =>
              \/ UpdateStep
              \/ coord.result = "none" /\ coord'.result = "error"]_vars

\* C3 witness: the coordinator has returned from update_batch_job_status with
\* the parent failed over mixed success/failed children.
C3_Witness ==
    /\ IsBatch
    /\ coord.result = "completed"
    /\ Parent.status = "failed"
    /\ SomeChild({"success"})
    /\ SomeChild({"failed"})


\* C4: sequential batch with stop_on_failure: once a child is failed, no later
\* child is ever running, and when the coordinator has finished every later
\* child is cancelled.
C4_SequentialStopOnFailure ==
    [][Sequential /\ batch_config.stop_on_failure =>
         \A k, m \in 1 .. Len(Children) :
            k < m /\ jobs[Children[k]].status = "failed" =>
               /\ jobs'[Children[m]].status # "running"
               /\ coord'.result = "completed" => jobs'[Children[m]].status = "cancelled"]_vars

\* index of the window a child position belongs to
WindowOf(k) == (k - 1) \div batch_config.concurrent_limit
WindowDone(w) ==
    \A k \in 1 .. Len(Children) : WindowOf(k) = w => task[Children[k]].pc = "done"

\* C5: parallel batch in windows with stop_on_failure: once a completed window
\* holds a failed child, no child of a later window is dispatched or running,
\* and when the coordinator has finished every such child is cancelled.
C5_ParallelStopOnFailure ==
    [][Parallel /\ Windowed /\ batch_config.concurrent_limit > 0
          /\ batch_config.stop_on_failure =>
         \A k, m \in 1 .. Len(Children) :
            /\ WindowOf(k) < WindowOf(m)
            /\ WindowDone(WindowOf(k))
            /\ jobs[Children[k]].status = "failed"
            => /\ task'[Children[m]].pc = "none"
               /\ jobs'[Children[m]].status # "running"
               /\ coord'.result = "completed" => jobs'[Children[m]].status = "cancelled"]_vars

C7_CancelledRunningStaysCancelled ==
    [][IsSingle /\ api = "done" /\ cancelled_from'[1] = "running"
          => jobs'[1].status = "cancelled"]_vars

\* C8: a job cancelled while pending has completed_at set and started_at unset
\* from then on.
C8_CancelledPendingNeverStarted ==
    \A j \in JobIds :
        cancelled_from[j] = "pending"
            => jobs[j].completed_at # None /\ jobs[j].started_at = None

\* C9: started_at and completed_at are write-once.
C9_TimestampsWriteOnce ==
    [][\A j \in JobIds :
          /\ jobs[j].started_at # None => jobs'[j].started_at = jobs[j].started_at
          /\ jobs[j].completed_at # None => jobs'[j].completed_at = jobs[j].completed_at]_vars

\* C10: whenever both timestamps of a job are set, started_at <= completed_at.
C10_StartedBeforeCompleted ==
    \A j \in JobIds :
        jobs[j].started_at # None /\ jobs[j].completed_at # None
            => jobs[j].started_at <= jobs[j].completed_at

\* the execute_playbook_task of job j has ended: returned, or died with its process
ExecutorEnded(j) == task[j].pc = "done"
\* the execute_batch_job_task of the parent has ended
CoordEnded == coord.pc = "done"

\* C11: every job on which execute_playbook_task was invoked reaches a terminal
\* status and is not left in running: once the task of a job has ended (it
\* returned, a handler returned, or it was terminated), the job's stored
\* status is not running.
C11_ExecutedJobNotLeftRunning ==
    \A j \in JobIds : ExecutorEnded(j) => jobs[j].status # "running"

\* C12: whenever execute_batch_job_task has ended (normal return, caught
\* coordination error, or termination), the stored status of the parent is
\* terminal; no run of the coordinator leaves the parent pending or running.
C12_CoordinatorLeavesParentTerminal ==
    (IsBatch /\ CoordEnded) => Parent.status \in Terminal

\* C13: when the coordinator of a batch parent that had started is terminated
\* externally (cancel_job on the parent, then revoke with terminate), the
\* parent is cancelled and no child of it remains pending or running.
C13_TerminatedParentCascades ==
    (IsBatch /\ CoordEnded /\ coord.result \in {"cancelled", "revoked"}
        /\ Parent.started_at # None)
    => (Parent.status = "cancelled" /\ AllChildren(Terminal))

\* C14: no two actors race for the status of one job: a status write of the
\* job's executor, of a cancel request or of the batch coordinator never
\* changes a terminal status that is already stored for the job (which another
\* actor must have written, since each actor writes a terminal status for a
\* job as its last write to it).
C14_NoActorOverwritesTerminal ==
    [][\A j \in JobIds :
          (/\ jobs[j].status \in Terminal
           /\ \/ task'[j] # task[j]
              \/ coord' # coord
              \/ cancels' # cancels)
          => jobs'[j].status = jobs[j].status]_vars

\* C15: when execute_playbook_task finds the playbook or server row of its job
\* missing, the job is not running before the step, the step stores failed
\* with the error message and leaves started_at as it was, and the task ends
\* there: it never reaches the point where the runner is invoked.
C15_MissingRecordFailsWithoutRun ==
    [][\A j \in JobIds :
          (task[j].pc = "queued" /\ ExecStartWith(j, "missing"))
          => /\ jobs[j].status # "running"
             /\ jobs'[j].status = "failed"
             /\ jobs'[j].error_message = "Playbook or server not found"
             /\ jobs'[j].started_at = jobs[j].started_at
             /\ task'[j].pc = "done"]_vars

\* a pending job whose task found a row missing: failed, never started
C15_Witness ==
    \E j \in JobIds :
        /\ task[j].pc = "done" /\ task[j].result = "error"
        /\ jobs[j].status = "failed"
        /\ jobs[j].error_message = "Playbook or server not found"
        /\ jobs[j].started_at = None
        /\ cancelled_from[j] = "none"

\* C16: when execute_playbook_task finds the playbook or server row of its job
\* present but inactive (soft-deleted after the job was created), the step
\* stores failed and the task ends without invoking the runner.
C16_InactiveRecordFailsWithoutRun ==
    [][\A j \in JobIds :
          (task[j].pc = "queued" /\ ExecStartWith(j, "inactive"))
          => /\ jobs'[j].status = "failed"
             /\ task'[j].pc = "done"]_vars

\* a step in which one of the coordinator's except Exception handlers runs:
\* the inner one of the sequential loop, or the outer one of the task
CoordinationError ==
    \/ coord.pc = "seq" /\ CoordSeqExcept
    \/ coord.pc \notin {"none", "done"} /\ coord'.pc = "done" /\ coord'.result = "error"

\* C17: when an unexpected error occurs in the coordination loop, the parent
\* is set to failed with the error text, the coordinator ends (no further
\* child is dispatched), and the step changes the status of no child.
C17_CoordinationErrorFailsParent ==
    [][(IsBatch /\ CoordinationError)
          => /\ jobs'[ParentId].status = "failed"
             /\ jobs'[ParentId].error_message # ""
             /\ coord'.pc = "done"
             /\ \A k \in ChildIds : jobs'[k].status = jobs[k].status]_vars

CompletedExecution(j) == task[j].pc = "done" /\ task[j].result \in {"success", "failed"}

\* C19: after a completed execution the JobLog rows of the job carry the line
\* numbers 1..m, strictly increasing and without a gap, whatever the runner
\* printed (blank lines included).
C19_LogLinesGapFree ==
    \A j \in JobIds :
        CompletedExecution(j)
        => job_logs[j] = [k \in 1 .. Len(job_logs[j]) |-> k]

\* C20: in every reachable state no two JobLog rows of a job share a
\* line_number, also when a handler of the executor has added its own row
\* after the bulk insert.
C20_LogLinesUnique ==
    \A j \in JobIds :
        \A a, b \in 1 .. Len(job_logs[j]) :
            a # b => job_logs[j][a] # job_logs[j][b]

\* C21: a creation request that fails validation (playbook or a target
\* missing or inactive, fewer than 2 targets for a batch) is refused and
\* leaves the job store as it was, with no row and no task; a batch request is
\* served by creating the parent and exactly one child per target, or nothing.
C21_InvalidRequestCreatesNothing ==
    [][api = "idle" =>
        /\ \A playbook, server \in Lookups :
              (ApiCreateJobWith(playbook, server)
                  /\ (playbook # "active" \/ server # "active"))
              => (api' = "rejected" /\ jobs' = <<>> /\ task' = <<>>
                    /\ coord'.pc = "none")
        /\ \A r \in BatchRequests \cup MalformedRequests, playbook \in Lookups :
              \A servers \in [1 .. r.n -> Lookups] :
                 CreateBatchJobWith(r, playbook, servers)
                 => \/ /\ api' = "rejected" /\ jobs' = <<>> /\ task' = <<>>
                       /\ coord'.pc = "none"
                    \/ /\ r.n >= MinServers /\ playbook = "active"
                       /\ \A k \in 1 .. r.n : servers[k] = "active"
                       /\ Len(jobs') = r.n + 1
                       /\ jobs'[ParentId].is_batch_job
                       /\ Len(get_child_jobs(jobs', ParentId)) = r.n
                       /\ coord'.pc = "queued"]_vars

\* a refused request: nothing stored, nothing dispatched
C21_Witness ==
    api = "rejected" /\ jobs = <<>> /\ task = <<>> /\ coord.pc = "none"

\* child number m of the coordinator's list enters running in this step
EntersRunning(m) ==
    jobs[Children[m]].status # "running" /\ jobs'[Children[m]].status = "running"

\* C22: in a sequential batch at most one child is running in
\* any state, and child i+1 never enters running before child i is terminal.
C22_SequentialOneAtATimeInOrder ==
    [][Sequential =>
         /\ RunningCount <= 1
         /\ \A k, m \in 1 .. Len(Children) :
               (k < m /\ EntersRunning(m)) => jobs[Children[k]].status \in Terminal]_vars

\* child number m of the coordinator's list has been sent to a worker or is
\* running
Started(m) ==
    task[Children[m]].pc # "none" \/ jobs[Children[m]].status = "running"

\* C23: in a parallel batch run in windows, a child of a later window is
\* dispatched or running only when every child of every earlier window has a
\* terminal status.
C23_WindowsOneAfterAnother ==
    Parallel /\ Windowed /\ batch_config.concurrent_limit > 0 =>
        \A k, m \in 1 .. Len(Children) :
            (WindowOf(k) < WindowOf(m) /\ Started(m))
                => jobs[Children[k]].status \in Terminal

\* C23 witness: the second window has a running child, the first window has
\* been executed and is terminal.
C23_Witness ==
    /\ Parallel /\ Windowed /\ batch_config.concurrent_limit > 0
    /\ \E m \in 1 .. Len(Children) :
          /\ WindowOf(m) = 1
          /\ jobs[Children[m]].status = "running"
    /\ \A k \in 1 .. Len(Children) :
          WindowOf(k) = 0 => /\ task[Children[k]].pc = "done"
                             /\ jobs[Children[k]].status \in Terminal

\* C24: in a batch with stop_on_failure = false and no cancel request, no
\* child is ever cancelled, and when the coordinator has returned and the
\* creating request has finished, every child has been executed and is success
\* or failed, and the parent is failed when a child is failed.
C24_NoStopRunsEveryChild ==
    IsBatch /\ ~batch_config.stop_on_failure /\ cancels = 0 =>
        /\ ~SomeChild({"cancelled"})
        /\ (CoordEnded /\ api = "done") =>
              /\ \A k \in ChildIds : /\ task[k].pc = "done"
                                     /\ jobs[k].status \in {"success", "failed"}
              /\ SomeChild({"failed"}) => Parent.status = "failed"

\* C25: the write of create_job after the dispatch of a single job never moves
\* its status backwards: a job the worker has set to running or to a terminal
\* status is not pending after the write.
C25_StoreTaskIdKeepsStatus ==
    [][(api = "job_dispatched" /\ api' = "done"
          /\ cancels = 0 /\ task[1].pc \in {"running", "done"}
          /\ jobs[1].status \in {"running"} \cup Terminal)
         => jobs'[1].status # "pending"]_vars

\* C26: the write of create_batch_job after the dispatch of the coordinator
\* never puts a parent that the coordinator has set to success, failed or
\* cancelled back to running.
C26_BatchStoreTaskIdKeepsTerminal ==
    [][(api = "batch_dispatched" /\ api' = "done"
          /\ cancels = 0 /\ coord.pc = "done" /\ Parent.status \in Terminal)
         => jobs'[ParentId].status # "running"]_vars

\* C27: a job whose stored status is cancelled, cancelled while it was
\* pending, is not moved to running and the runner is not invoked for it.
C27_CancelledPendingNotExecuted ==
    [][\A j \in JobIds :
         (cancelled_from[j] = "pending" /\ jobs[j].status = "cancelled")
            => /\ jobs'[j].status # "running"
               /\ task'[j].pc # "running"]_vars

\* C28: in every state and for every job, completed_at is set if and only if
\* the status is terminal.
C28_CompletedAtIffTerminal ==
    \A j \in JobIds : (jobs[j].completed_at # None) <=> (jobs[j].status \in Terminal)

\* C29: for every stored concurrent_limit, a parallel coordinator that has
\* returned normally leaves no child pending, and with a limit of 0 or of at
\* least the number of children the window it waits for is all the children.
C29_ParallelLeavesNoChildPending ==
    Parallel =>
        /\ (CoordEnded /\ coord.result = "completed") => ~SomeChild({"pending"})
        /\ (coord.pc = "join"
              /\ (batch_config.concurrent_limit = 0
                    \/ batch_config.concurrent_limit >= Len(Children)))
             => coord.window = Children

\* C30: a batch-completion notification is added only by the step in which
\* the coordinator stores the parent's final status and returns normally, at
\* most once, and its success and failed counts are the numbers of children
\* whose stored status is success and failed at that moment.
C30_BatchNotificationCountsStored ==
    [][\A row \in BagToSet(notifications') :
         (row.event_type = "batch_complete"
            /\ CopiesIn(row, notifications') > CopiesIn(row, notifications))
         => /\ UpdateStep
            /\ CopiesIn(row, notifications) = 0
            /\ row.success = CountStatus(jobs', Children, {"success"})
            /\ row.failed = CountStatus(jobs', Children, {"failed"})]_vars
====
